---------------------------- MODULE Spec2Model ----------------------------
(***************************************************************************)
(* Model of the DCF valuation engine of dcf_valuation_tool.py.             *)
(*                                                                         *)
(* Numbers.  The program computes with Python floats and numpy float64     *)
(* scalars.  A number is modelled as an exact fraction n/d together with   *)
(* its run-time type t:                                                    *)
(*   d > 0          the finite value n/d (kept in lowest terms);           *)
(*   d = 0, n # 0   +inf / -inf (n = 1 / n = -1);                          *)
(*   d = 0, n = 0   nan;                                                   *)
(*   t = "float"    a Python float, t = "float64" a numpy scalar.          *)
(* The type matters at one place only: dividing by zero raises             *)
(* ZeroDivisionError when both operands are Python floats, and yields      *)
(* inf / nan (with a RuntimeWarning, no exception) as soon as one operand  *)
(* is a numpy scalar.  A raised exception is the value ZDE; every          *)
(* operation with ZDE among its operands is ZDE (the expression never      *)
(* completes), and the statements that follow test for it.                 *)
(* The binary rounding error of the floats (about 1e-16 relative) is not   *)
(* modelled; round(x, 2) is modelled as what it does, rounding to a        *)
(* multiple of 1/100, ties to even.                                        *)
(***************************************************************************)
EXTENDS Integers, Sequences, FiniteSets, TLC

VARIABLES
    pc,              \* position of the operation being run
    call,            \* SpecFn: the arguments of the last call of a primitive
    ret,             \* SpecFn: what that call returned
    inputs,          \* dcf_model: "Base FCF", "Shares", "Net Debt" (lines 44-48)
    scenario_inputs, \* dcf_model: the mapping, a sequence of name/growth/wacc
    shared_tg,       \* dcf_model: its terminal_growth argument, shared by all scenarios
    alt,             \* a second mapping: scenario_inputs with one growth changed
    idx,             \* dcf_model: number of scenarios the loop has processed
    results,         \* dcf_model: results dict, in insertion order
    fcf_tables,      \* dcf_model: fcf_tables dict, in insertion order
    results2,        \* results of the run on the second mapping
    fcf_tables2,     \* fcf_tables of the run on the second mapping
    output,          \* dcf_model: the returned summary rows / dcf_table columns
    roundtrip,       \* the one-cell sensitivity grid built for one scenario
    grid,            \* dcf_sensitivity_analysis: its arguments
    table,           \* dcf_sensitivity_analysis: the DataFrame being filled
    gi,              \* dcf_sensitivity_analysis: position in tg_range
    ri               \* dcf_sensitivity_analysis: position in wacc_range

vars == <<pc, call, ret, inputs, scenario_inputs, shared_tg, alt, idx,
          results, fcf_tables, results2, fcf_tables2, output, roundtrip,
          grid, table, gi, ri>>

---------------------------------------------------------------------------
(* Arithmetic of the modelled numbers.                                      *)

Abs(x) == IF x < 0 THEN -x ELSE x

Sign(x) == IF x < 0 THEN -1 ELSE IF x > 0 THEN 1 ELSE 0

RECURSIVE GCD(_, _)
GCD(a, b) == IF b = 0 THEN a ELSE GCD(b, a % b)

PyFloat == "float"
NpFloat == "float64"
ZeroDivisionError == "ZeroDivisionError"

\* The value of an expression whose evaluation raised ZeroDivisionError.
ZDE == [n |-> 0, d |-> 0, t |-> ZeroDivisionError]

IsExc(a) == a.t = ZeroDivisionError

IsFinite(a) == ~IsExc(a) /\ a.d # 0

IsInf(a) == ~IsExc(a) /\ a.d = 0 /\ a.n # 0

IsNan(a) == ~IsExc(a) /\ a.d = 0 /\ a.n = 0

\* n/d in lowest terms, d >= 0; n/0 is an infinity with the sign of n, 0/0 nan.
Norm(n, d, t) ==
    IF d = 0 THEN [n |-> Sign(n), d |-> 0, t |-> t]
    ELSE LET g == GCD(Abs(n), d)
         IN  [n |-> n \div g, d |-> d \div g, t |-> t]

\* Literals of the source are Python floats; inputs state their type.
F(n, d) == Norm(n, d, PyFloat)

N(n, d) == Norm(n, d, NpFloat)

\* Type of the result of a binary operation: numpy wins over Python.
Promote(a, b) == IF a.t = NpFloat \/ b.t = NpFloat THEN NpFloat ELSE PyFloat

Neg(a) == [a EXCEPT !.n = -a.n]

Add(a, b) ==
    IF IsExc(a) \/ IsExc(b) THEN ZDE
    ELSE LET t == Promote(a, b)
         IN  IF IsNan(a) \/ IsNan(b) THEN Norm(0, 0, t)
             ELSE IF a.d = 0 /\ b.d = 0
                  THEN (IF a.n = b.n THEN Norm(a.n, 0, t) ELSE Norm(0, 0, t))
             ELSE IF a.d = 0 THEN Norm(a.n, 0, t)
             ELSE IF b.d = 0 THEN Norm(b.n, 0, t)
             ELSE LET g == GCD(a.d, b.d)
                      l == (a.d \div g) * b.d
                  IN  Norm(a.n * (l \div a.d) + b.n * (l \div b.d), l, t)

Sub(a, b) == Add(a, IF IsExc(b) THEN b ELSE Neg(b))

Mul(a, b) ==
    IF IsExc(a) \/ IsExc(b) THEN ZDE
    ELSE LET t == Promote(a, b)
         IN  IF IsNan(a) \/ IsNan(b) THEN Norm(0, 0, t)
             ELSE IF a.d = 0 \/ b.d = 0
                  THEN Norm(Sign(a.n) * Sign(b.n), 0, t)  \* inf * 0 is nan
             ELSE LET g1 == GCD(Abs(a.n), b.d)   \* cancelled crosswise: lowest terms
                      g2 == GCD(Abs(b.n), a.d)
                  IN  [n |-> (a.n \div g1) * (b.n \div g2),
                       d |-> (a.d \div g2) * (b.d \div g1), t |-> t]

\* a / b.  Division by a zero raises for two Python floats and gives inf or
\* nan when a numpy scalar is involved.
Div(a, b) ==
    IF IsExc(a) \/ IsExc(b) THEN ZDE
    ELSE LET t == Promote(a, b)
         IN  IF b.d # 0 /\ b.n = 0
             THEN (IF t = PyFloat THEN ZDE
                   ELSE IF IsNan(a) THEN Norm(0, 0, t)
                   ELSE Norm(Sign(a.n), 0, t))
             ELSE IF IsNan(a) \/ IsNan(b) THEN Norm(0, 0, t)
             ELSE IF b.d = 0
                  THEN (IF a.d = 0 THEN Norm(0, 0, t) ELSE Norm(0, 1, t))
             ELSE Mul(a, [n |-> Sign(b.n) * b.d, d |-> Abs(b.n), t |-> b.t])

\* a ** k for an integer k >= 0.
RECURSIVE Pow(_, _)
Pow(a, k) == IF k = 0 THEN Norm(1, 1, a.t) ELSE Mul(a, Pow(a, k - 1))

\* One step of the long division of a remainder by d: the value scaled by k.
Shift(st, k, d) ==
    [f |-> st.f * k + ((st.r * k) \div d), r |-> (st.r * k) % d]

\* round(a, 2): the nearest multiple of 1/100, ties to the even one;
\* inf and nan are returned as they are.  floor(a * 100) is taken by long
\* division (100 = 2 * 5 * 2 * 5), which keeps the products small.
Round2(a) ==
    IF IsExc(a) \/ a.d = 0 THEN a
    ELSE LET s0 == [f |-> a.n \div a.d, r |-> a.n % a.d]
             s4 == Shift(Shift(Shift(Shift(s0, 2, a.d), 5, a.d), 2, a.d), 5, a.d)
             m == IF s4.r < a.d - s4.r THEN s4.f
                  ELSE IF s4.r > a.d - s4.r THEN s4.f + 1
                  ELSE IF s4.f % 2 = 0 THEN s4.f ELSE s4.f + 1
         IN  Norm(m, 100, a.t)

\* Comparison of values (type left aside); a nan equals nothing.
Eq(a, b) == ~IsExc(a) /\ ~IsExc(b) /\ ~IsNan(a) /\ a.n = b.n /\ a.d = b.d

Lt(a, b) == IsFinite(a) /\ IsFinite(b) /\ a.n * b.d < b.n * a.d

Le(a, b) == IsFinite(a) /\ IsFinite(b) /\ a.n * b.d <= b.n * a.d

\* |a - b| <= tol, for finite values.
Close(a, b, tol) ==
    /\ IsFinite(a) /\ IsFinite(b)
    /\ Le(Sub(a, b), tol) /\ Le(Sub(b, a), tol)

Zero == F(0, 1)

One == F(1, 1)

\* sum(xs): Python's sum starts from the int 0.
RECURSIVE Sum(_)
Sum(xs) == IF xs = <<>> THEN Zero ELSE Add(Sum(SubSeq(xs, 1, Len(xs) - 1)), xs[Len(xs)])

---------------------------------------------------------------------------
(* The primitives of dcf_valuation_tool.py, lines 21-40.                    *)

\* Whether the evaluation of a list raised (one of its elements did).
SeqExc(xs) == \E i \in 1..Len(xs) : IsExc(xs[i])

\* Mutant of project_fcf: the exponent runs over range(years), from 0.
project_fcf_from_zero(base_fcf, growth_rate, years) ==
    [i \in 1..years |-> Round2(Mul(base_fcf, Pow(Add(One, growth_rate), i - 1)))]

\* project_fcf(base_fcf, growth_rate, years=5), line 22:
\*   [round(base_fcf * ((1 + growth_rate) ** i), 2) for i in range(1, years + 1)]
project_fcf(base_fcf, growth_rate, years) ==
    [i \in 1..years |-> Round2(Mul(base_fcf, Pow(Add(One, growth_rate), i)))]

\* calculate_terminal_value(last_fcf, growth_rate, wacc, terminal_growth), line 25:
\*   (last_fcf * (1 + growth_rate)) / (wacc - terminal_growth)
calculate_terminal_value(last_fcf, growth_rate, wacc, terminal_growth) ==
    Div(Mul(last_fcf, Add(One, growth_rate)), Sub(wacc, terminal_growth))

\* Mutant of discount_cash_flows: the cash flows are cut to the first
\* `years` before discounting.
discount_cash_flows_cut(fcfs, terminal_value, wacc, years) ==
    LET kept == SubSeq(fcfs, 1, IF Len(fcfs) < years THEN Len(fcfs) ELSE years)
        discounted == [i \in 1..Len(kept) |->
                          Div(kept[i], Pow(Add(One, wacc), i))]
        terminal_pv == Div(terminal_value, Pow(Add(One, wacc), years))
    IN  discounted \o <<Round2(terminal_pv)>>

\* discount_cash_flows(fcfs, terminal_value, wacc, years=5), lines 28-30:
\* one present value per element of fcfs, then the rounded present value of
\* the terminal value, discounted over `years` periods.
discount_cash_flows(fcfs, terminal_value, wacc, years) ==
    LET discounted == [i \in 1..Len(fcfs) |->
                          Div(fcfs[i], Pow(Add(One, wacc), i))]
        terminal_pv == Div(terminal_value, Pow(Add(One, wacc), years))
    IN  discounted \o <<Round2(terminal_pv)>>

KeyEV == "Enterprise Value (B)"
KeyEquity == "Equity Value (B)"
KeyPrice == "Share Price ($)"

Thousand == F(1000, 1)

\* Mutant of calculate_valuation: net debt is added instead of subtracted.
calculate_valuation_add_debt(discounted_fcfs, net_debt, shares_outstanding) ==
    LET enterprise_value == Sum(discounted_fcfs)
        equity_value == Add(enterprise_value, net_debt)
        share_price == Div(equity_value, shares_outstanding)
    IN  IF IsExc(share_price)
        THEN (KeyEV :> ZDE) @@ (KeyEquity :> ZDE) @@ (KeyPrice :> ZDE)
        ELSE (KeyEV :> Round2(Div(enterprise_value, Thousand)))
             @@ (KeyEquity :> Round2(Div(equity_value, Thousand)))
             @@ (KeyPrice :> Round2(share_price))

\* calculate_valuation(discounted_fcfs, net_debt, shares_outstanding),
\* lines 33-40.  An exception (line 35, shares_outstanding == 0 with Python
\* floats) leaves no dictionary: every field of the result is ZDE then.
calculate_valuation(discounted_fcfs, net_debt, shares_outstanding) ==
    LET enterprise_value == Sum(discounted_fcfs)
        equity_value == Sub(enterprise_value, net_debt)
        share_price == Div(equity_value, shares_outstanding)
    IN  IF IsExc(share_price)
        THEN (KeyEV :> ZDE) @@ (KeyEquity :> ZDE) @@ (KeyPrice :> ZDE)
        ELSE (KeyEV :> Round2(Div(enterprise_value, Thousand)))
             @@ (KeyEquity :> Round2(Div(equity_value, Thousand)))
             @@ (KeyPrice :> Round2(share_price))

---------------------------------------------------------------------------
(* dcf_model, lines 42-66.  A dict is a sequence of key/value entries in    *)
(* insertion order.                                                         *)

DefaultYears == 5

HasKey(dict, k) == \E i \in 1..Len(dict) : dict[i].key = k

\* Mutant of DictSet: a new key is put in front of the others.
DictSetInFront(dict, k, v) ==
    IF HasKey(dict, k)
    THEN [i \in 1..Len(dict) |-> IF dict[i].key = k THEN [key |-> k, value |-> v]
                                 ELSE dict[i]]
    ELSE <<[key |-> k, value |-> v]>> \o dict

\* dict[k] = v (lines 59, 60): the value of an existing key is replaced where
\* it stands, a new key is appended.
DictSet(dict, k, v) ==
    IF HasKey(dict, k)
    THEN [i \in 1..Len(dict) |-> IF dict[i].key = k THEN [key |-> k, value |-> v]
                                 ELSE dict[i]]
    ELSE Append(dict, [key |-> k, value |-> v])

RECURSIVE Flatten(_)
Flatten(lists) ==
    IF lists = <<>> THEN <<>>
    ELSE Flatten(SubSeq(lists, 1, Len(lists) - 1)) \o lists[Len(lists)]

\* Mutant of dcf_model_body: `discounted` is one list kept across the
\* iterations, so a scenario is valued on the series of those before it too.
dcf_model_body_shared_list(base_fcf, net_debt, shares, terminal_growth, st, scenario, inp) ==
    LET growth == inp.growth
        wacc == inp.wacc
        fcfs == project_fcf(base_fcf, growth, DefaultYears)
        terminal_value ==
            calculate_terminal_value(fcfs[Len(fcfs)], growth, wacc, terminal_growth)
        discounted == discount_cash_flows(fcfs, terminal_value, wacc, DefaultYears)
        kept == Flatten([i \in 1..Len(st.fcf_tables) |-> st.fcf_tables[i].value])
        valuation == calculate_valuation(kept \o discounted, net_debt, shares)
    IN  IF IsExc(terminal_value) \/ SeqExc(discounted) \/ IsExc(valuation[KeyPrice])
        THEN [st EXCEPT !.exc = TRUE]
        ELSE [exc |-> FALSE,
              results |-> DictSet(st.results, scenario, valuation),
              fcf_tables |-> DictSet(st.fcf_tables, scenario, discounted)]

\* One iteration of the loop of lines 52-60 on the dicts st.results and
\* st.fcf_tables.  An exception raised by a stage leaves the loop (st.exc).
dcf_model_body(base_fcf, net_debt, shares, terminal_growth, st, scenario, inp) ==
    LET growth == inp.growth
        wacc == inp.wacc
        fcfs == project_fcf(base_fcf, growth, DefaultYears)
        terminal_value ==
            calculate_terminal_value(fcfs[Len(fcfs)], growth, wacc, terminal_growth)
        discounted == discount_cash_flows(fcfs, terminal_value, wacc, DefaultYears)
        valuation == calculate_valuation(discounted, net_debt, shares)
    IN  IF IsExc(terminal_value) \/ SeqExc(discounted) \/ IsExc(valuation[KeyPrice])
        THEN [st EXCEPT !.exc = TRUE]
        ELSE [exc |-> FALSE,
              results |-> DictSet(st.results, scenario, valuation),
              fcf_tables |-> DictSet(st.fcf_tables, scenario, discounted)]

\* pd.DataFrame(results).T.reset_index(names="Scenario"), line 63: one row
\* per key of results, in the order of the dict.
Summary(res) ==
    [i \in 1..Len(res) |-> [Scenario |-> res[i].key, row |-> res[i].value]]

\* pd.DataFrame(fcf_tables), line 64: one column per key, in the order of
\* the dict.
DcfTable(tables) ==
    [i \in 1..Len(tables) |-> [column |-> tables[i].key, rows |-> tables[i].value]]

---------------------------------------------------------------------------
(* dcf_sensitivity_analysis, lines 68-84.                                   *)

Hundred == F(100, 1)

\* f"{round(x*100,2)}%": the text of a rounded number, which names that
\* number; the label is modelled as the number itself.
Label(x) == LET v == Round2(Mul(x, Hundred)) IN <<v.n, v.d>>

\* A cell of the DataFrame that was never assigned: pandas holds NaN there.
Unfilled == Norm(0, 0, NpFloat)

\* pd.DataFrame(index=[...], columns=[...]), lines 72-73.
EmptyTable(tg_range, wacc_range) ==
    [index |-> [i \in 1..Len(tg_range) |-> Label(tg_range[i])],
     columns |-> [j \in 1..Len(wacc_range) |-> Label(wacc_range[j])],
     cells |-> [i \in 1..Len(tg_range) |-> [j \in 1..Len(wacc_range) |-> Unfilled]]]

\* table.loc[row_label, col_label] = v, line 83: every cell whose row carries
\* row_label and whose column carries col_label is assigned.
LocSet(tbl, row_label, col_label, v) ==
    [tbl EXCEPT !.cells =
        [i \in 1..Len(tbl.index) |-> [j \in 1..Len(tbl.columns) |->
            IF tbl.index[i] = row_label /\ tbl.columns[j] = col_label
            THEN v ELSE tbl.cells[i][j]]]]

\* fcf_list of line 71: the projection, not rounded.
FcfList(base_fcf, growth_rate, years) ==
    [i \in 1..years |-> Mul(base_fcf, Pow(Add(One, growth_rate), i))]

\* Lines 76-83: the rounded per-share price of the pair (g, r).
CellPrice(fcf_list, shares, net_debt, growth_rate, years, g, r) ==
    LET fcf_2026 == fcf_list[Len(fcf_list)]
        tv == Div(Mul(fcf_2026, Add(One, growth_rate)), Sub(r, g))
        tv_pv == Div(tv, Pow(Add(One, r), years))
        discounted_fcfs == [i \in 1..Len(fcf_list) |->
                               Div(fcf_list[i], Pow(Add(One, r), i))]
        ev == Add(Sum(discounted_fcfs), tv_pv)
        equity == Sub(ev, net_debt)
        price == Div(equity, shares)
    IN  Round2(price)

\* The loops of lines 74-83 from the pair at positions (i, j) on; an
\* exception ends them and leaves no table to return (exc).
RECURSIVE FillFrom(_, _, _, _)
FillFrom(tbl, a, i, j) ==
    IF i > Len(a.tg_range) \/ Len(a.wacc_range) = 0 THEN [exc |-> FALSE, table |-> tbl]
    ELSE LET g == a.tg_range[i]
             r == a.wacc_range[j]
             price == CellPrice(FcfList(a.base_fcf, a.growth_rate, a.years),
                                a.shares, a.net_debt, a.growth_rate, a.years, g, r)
         IN  IF IsExc(price) THEN [exc |-> TRUE, table |-> tbl]
             ELSE IF j < Len(a.wacc_range)
                  THEN FillFrom(LocSet(tbl, Label(g), Label(r), price), a, i, j + 1)
                  ELSE FillFrom(LocSet(tbl, Label(g), Label(r), price), a, i + 1, 1)

\* dcf_sensitivity_analysis(base_fcf, shares, net_debt, growth_rate,
\*                          wacc_range, tg_range, years=5)
dcf_sensitivity_analysis(base_fcf, shares, net_debt, growth_rate, wacc_range, tg_range, years) ==
    FillFrom(EmptyTable(tg_range, wacc_range),
             [base_fcf |-> base_fcf, shares |-> shares, net_debt |-> net_debt,
              growth_rate |-> growth_rate, wacc_range |-> wacc_range,
              tg_range |-> tg_range, years |-> years], 1, 1)

---------------------------------------------------------------------------
(* Inputs of the bounded checks.                                            *)

\* Largest `years` argument and longest cash-flow list tried on the primitives.
MaxYears == 5
MaxLen == 2

Types == {PyFloat, NpFloat}

\* base_fcf: 0.004, 1, 1000 and the non-positive 0 and -50.
BaseFcfValues == {<<1, 250>>, <<1, 1>>, <<1000, 1>>, <<0, 1>>, <<-50, 1>>}

\* growth rates: -100 %, -90 %, 0, 10 %.
GrowthValues == {<<-1, 1>>, <<-9, 10>>, <<0, 1>>, <<1, 10>>}

\* discount rates and terminal growth rates.
RateValues == {<<0, 1>>, <<1, 40>>, <<1, 10>>, <<1, 4>>}

Vals(S, T) == {Norm(q[1], q[2], t) : q \in S, t \in T}

RECURSIVE SeqsUpTo(_, _)
SeqsUpTo(S, k) ==
    IF k = 0 THEN {<<>>}
    ELSE LET shorter == SeqsUpTo(S, k - 1)
         IN  shorter \cup {Append(s, x) : s \in {u \in shorter : Len(u) = k - 1}, x \in S}

NoCall == [fn |-> "none"]
NoRet == [exc |-> FALSE, val |-> <<>>]

Idle ==
    /\ pc = "idle"
    /\ call = NoCall /\ ret = NoRet
    /\ inputs = <<>> /\ scenario_inputs = <<>> /\ shared_tg = Zero
    /\ alt = <<>> /\ idx = 0
    /\ results = <<>> /\ fcf_tables = <<>>
    /\ results2 = <<>> /\ fcf_tables2 = <<>>
    /\ output = <<>> /\ roundtrip = <<>>
    /\ grid = <<>> /\ table = <<>> /\ gi = 0 /\ ri = 0

UnchangedModel ==
    UNCHANGED <<inputs, scenario_inputs, shared_tg, alt, idx, results,
                fcf_tables, results2, fcf_tables2, output, roundtrip>>

UnchangedGrid == UNCHANGED <<grid, table, gi, ri>>

---------------------------------------------------------------------------
(* SpecFn: the primitives called on their own, with any arguments.          *)

CallProjectFcf ==
    /\ pc = "idle"
    /\ \E b \in Vals(BaseFcfValues, Types), g \in Vals(GrowthValues, {PyFloat}),
       y \in 0..MaxYears :
        /\ call' = [fn |-> "project_fcf", base_fcf |-> b, growth_rate |-> g,
                    years |-> y]
        /\ ret' = [exc |-> FALSE, val |-> project_fcf(b, g, y)]
        /\ pc' = "returned"
        /\ UnchangedModel /\ UnchangedGrid

LastFcfValues == {<<0, 1>>, <<161051, 100>>, <<-50, 1>>}

CallTerminalValue ==
    /\ pc = "idle"
    /\ \E l \in Vals(LastFcfValues, Types), g \in Vals(GrowthValues, {PyFloat}),
       w \in Vals(RateValues, {PyFloat}), tg \in Vals(RateValues, {PyFloat}) :
        LET tv == calculate_terminal_value(l, g, w, tg)
        IN  /\ call' = [fn |-> "calculate_terminal_value", last_fcf |-> l,
                        growth_rate |-> g, wacc |-> w, terminal_growth |-> tg]
            /\ ret' = [exc |-> IsExc(tv), val |-> tv]
            /\ pc' = "returned"
            /\ UnchangedModel /\ UnchangedGrid

CashValues == {<<0, 1>>, <<110, 1>>, <<12101, 100>>}

\* terminal values: 0, 10 and +inf.
TerminalValues == {<<0, 1>>, <<10, 1>>, <<1, 0>>}

DiscountRates == {<<0, 1>>, <<1, 10>>, <<1, 4>>, <<-1, 2>>, <<-1, 1>>}

CallDiscount ==
    /\ pc = "idle"
    /\ \E f \in SeqsUpTo(Vals(CashValues, {NpFloat}), MaxLen),
       tv \in Vals(TerminalValues, {NpFloat}),
       w \in Vals(DiscountRates, {PyFloat}), y \in 0..MaxYears :
        LET d == discount_cash_flows(f, tv, w, y)
        IN  /\ call' = [fn |-> "discount_cash_flows", fcfs |-> f,
                        terminal_value |-> tv, wacc |-> w, years |-> y]
            /\ ret' = [exc |-> SeqExc(d), val |-> d]
            /\ pc' = "returned"
            /\ UnchangedModel /\ UnchangedGrid

DebtValues == {<<0, 1>>, <<500, 1>>, <<-1234, 1>>}

ShareValues == {<<0, 1>>, <<3, 1>>, <<100, 1>>}

CallValuation ==
    /\ pc = "idle"
    /\ \E f \in SeqsUpTo(Vals(CashValues, {NpFloat}), MaxLen),
       nd \in Vals(DebtValues, {NpFloat}), sh \in Vals(ShareValues, Types) :
        LET v == calculate_valuation(f, nd, sh)
        IN  /\ call' = [fn |-> "calculate_valuation", discounted_fcfs |-> f,
                        net_debt |-> nd, shares_outstanding |-> sh]
            /\ ret' = [exc |-> IsExc(v[KeyPrice]), val |-> v]
            /\ pc' = "returned"
            /\ UnchangedModel /\ UnchangedGrid

InitFn == Idle

NextFn == CallProjectFcf \/ CallTerminalValue \/ CallDiscount \/ CallValuation

SpecFn == InitFn /\ [][NextFn]_vars

---------------------------------------------------------------------------
(* Claims about the primitives, checked under SpecFn.                       *)

HalfCent == F(1, 200)

Called(fn) == pc = "returned" /\ call.fn = fn

\* The Projector's precondition: base_fcf > 0, growth_rate > -1, periods >= 1.
ProjectorPre ==
    /\ Called("project_fcf")
    /\ Lt(Zero, call.base_fcf)
    /\ Lt(F(-1, 1), call.growth_rate)
    /\ call.years >= 1

\* base_fcf * (1 + growth_rate) ** i, not rounded.
ExactFcf(i) == Mul(call.base_fcf, Pow(Add(One, call.growth_rate), i))

\* C9 as stated: under the precondition project_fcf returns a sequence of
\* length exactly `periods` whose elements are all strictly greater than 0.
C9_Original ==
    ProjectorPre =>
        /\ Len(ret.val) = call.years
        /\ \A i \in 1..Len(ret.val) : Lt(Zero, ret.val[i])

\* C9 amended: under the precondition project_fcf returns a sequence of
\* length exactly `periods`; element i is base_fcf * (1 + growth_rate) ** i
\* rounded to two decimals, so it is >= 0, and > 0 whenever the unrounded
\* value exceeds 0.005.
C9_Amended ==
    ProjectorPre =>
        /\ Len(ret.val) = call.years
        /\ \A i \in 1..Len(ret.val) :
              /\ Le(Zero, ret.val[i])
              /\ Close(ret.val[i], ExactFcf(i), HalfCent)
              /\ ret.val[i].d \in {1, 2, 4, 5, 10, 20, 25, 50, 100}
              /\ (Lt(HalfCent, ExactFcf(i)) => Lt(Zero, ret.val[i]))

\* C9 witness: a call within the precondition whose result holds a positive
\* element and an element rounded down to 0.
C9_Witness ==
    /\ ProjectorPre
    /\ \E i \in 1..Len(ret.val) : Eq(ret.val[i], Zero) /\ Lt(Zero, ExactFcf(i))
    /\ \E j \in 1..Len(ret.val) : Lt(Zero, ret.val[j])

\* C3 as stated: calculate_terminal_value raises ZeroDivisionError exactly
\* when wacc == terminal_growth, and otherwise returns the finite value
\* last_fcf * (1 + growth_rate) / (wacc - terminal_growth); it never returns
\* an infinite or undefined value.
C3_RaisesExactlyOnEqualRates ==
    Called("calculate_terminal_value") =>
        /\ ret.exc <=> Eq(call.wacc, call.terminal_growth)
        /\ ~ret.exc =>
              /\ IsFinite(ret.val)
              /\ Eq(Mul(ret.val, Sub(call.wacc, call.terminal_growth)),
                    Mul(call.last_fcf, Add(One, call.growth_rate)))

DiscounterPre ==
    /\ Called("discount_cash_flows")
    /\ Lt(F(-1, 1), call.wacc)

\* terminal_value / (1 + wacc) ** years, not rounded.
ExactTerminalPv == Div(call.terminal_value, Pow(Add(One, call.wacc), call.years))

LastIsTerminalPv ==
    LET last == ret.val[Len(ret.val)]
    IN  IF IsFinite(call.terminal_value)
        THEN Close(last, ExactTerminalPv, HalfCent)
        ELSE last = ExactTerminalPv

\* C6 as stated: for any cash-flow sequence, terminal value, discount rate
\* > -1 and periods argument, discount_cash_flows returns a sequence of
\* length periods + 1 whose last element is the discounted terminal value.
C6_Original ==
    DiscounterPre =>
        /\ Len(ret.val) = call.years + 1
        /\ LastIsTerminalPv

\* C6 amended: for a discount rate > -1 discount_cash_flows returns a
\* sequence of length len(fcfs) + 1, which is periods + 1 when fcfs has
\* exactly `periods` elements; its last element is the terminal value
\* discounted over `periods` periods, rounded to two decimals.
C6_Amended ==
    DiscounterPre =>
        /\ ~ret.exc
        /\ Len(ret.val) = Len(call.fcfs) + 1
        /\ (Len(call.fcfs) = call.years => Len(ret.val) = call.years + 1)
        /\ LastIsTerminalPv

\* C6 witness: a call whose cash-flow list is not empty and shorter than the
\* periods argument, with a finite non-zero terminal value.
C6_Witness ==
    /\ DiscounterPre
    /\ Len(call.fcfs) > 0 /\ Len(call.fcfs) < call.years
    /\ Len(ret.val) = Len(call.fcfs) + 1
    /\ Lt(Zero, ret.val[Len(ret.val)])

AggregatorPre ==
    /\ Called("calculate_valuation")
    /\ ~Eq(call.shares_outstanding, Zero)

FiveUnits == F(5, 1)

IsCents(a) == IsFinite(a) /\ a.d \in {1, 2, 4, 5, 10, 20, 25, 50, 100}

---------------------------------------------------------------------------
(* Spec: dcf_model run on a mapping of scenarios, then the sensitivity grid *)
(* of one scenario's own rates.                                             *)

\* Largest number of scenarios in the mapping.
MaxScenarios == 2

ScenarioNames == {"Bear", "Base", "Bull"}

\* What lines 44-47 extract from the sheet: numpy scalars.
SheetBaseFcf == Vals({<<1, 1>>, <<100, 1>>}, {NpFloat})
SheetCash == Vals({<<0, 1>>}, {NpFloat})
SheetDebt == Vals({<<50, 1>>}, {NpFloat})
SheetShares == Vals({<<1, 1>>, <<3, 1>>}, {NpFloat})

\* The rates the caller passes: Python floats.
ScenarioGrowth == Vals({<<0, 1>>, <<1, 2>>}, {PyFloat})
ScenarioWacc == Vals({<<1, 4>>, <<2, 3>>}, {PyFloat})
SharedTg == Vals({<<1, 40>>, <<1, 4>>}, {PyFloat})

Scenarios ==
    {[name |-> nm, growth |-> g, wacc |-> w] :
        nm \in ScenarioNames, g \in ScenarioGrowth, w \in ScenarioWacc}

\* The mappings: a dict holds each name once.
Mappings ==
    {m \in SeqsUpTo(Scenarios, MaxScenarios) :
        /\ Len(m) >= 1
        /\ \A i, j \in 1..Len(m) : i # j => m[i].name # m[j].name}

KeyBaseFcf == "Base FCF"
KeyShares == "Shares"
KeyNetDebt == "Net Debt"

\* Lines 43-51: the sheet is read and the dicts are empty.
Loaded ==
    /\ pc = "loop"
    /\ call = NoCall /\ ret = NoRet
    /\ \E b \in SheetBaseFcf, c \in SheetCash, d \in SheetDebt, sh \in SheetShares :
          inputs = (KeyBaseFcf :> b) @@ (KeyShares :> sh) @@ (KeyNetDebt :> Sub(d, c))
    /\ scenario_inputs \in Mappings
    /\ shared_tg \in SharedTg
    /\ idx = 0
    /\ results = <<>> /\ fcf_tables = <<>>
    /\ results2 = <<>> /\ fcf_tables2 = <<>>
    /\ output = <<>> /\ roundtrip = <<>>
    /\ grid = <<>> /\ table = <<>> /\ gi = 0 /\ ri = 0

Init == Loaded /\ alt = <<>>

\* The dicts after one more iteration of the loop on mapping m.
Iterate(m, res, tables) ==
    dcf_model_body(inputs[KeyBaseFcf], inputs[KeyNetDebt], inputs[KeyShares],
                   shared_tg, [exc |-> FALSE, results |-> res, fcf_tables |-> tables],
                   m[idx + 1].name, m[idx + 1])

\* Lines 52-60: the next scenario of the mapping.
LoopIter ==
    /\ pc = "loop"
    /\ idx < Len(scenario_inputs)
    /\ LET one == Iterate(scenario_inputs, results, fcf_tables)
       IN  IF one.exc
           THEN /\ pc' = "raised"
                /\ UNCHANGED <<idx, results, fcf_tables>>
           ELSE /\ pc' = "loop"
                /\ idx' = idx + 1
                /\ results' = one.results /\ fcf_tables' = one.fcf_tables
    /\ UNCHANGED <<call, ret, inputs, scenario_inputs, shared_tg, alt, output,
                   roundtrip, results2, fcf_tables2>>
    /\ UnchangedGrid

\* Lines 62-66.
Return ==
    /\ pc = "loop"
    /\ idx = Len(scenario_inputs)
    /\ output' = [summary |-> Summary(results), dcf_table |-> DcfTable(fcf_tables),
                  inputs |-> inputs]
    /\ pc' = "done"
    /\ UNCHANGED <<call, ret, inputs, scenario_inputs, shared_tg, alt, idx,
                   results, fcf_tables, results2, fcf_tables2, roundtrip>>
    /\ UnchangedGrid

\* The grid of one scenario: its growth rate, its discount rate as the only
\* column and the shared terminal growth rate as the only row.
RoundTrip ==
    /\ pc = "done"
    /\ \E k \in 1..Len(scenario_inputs) :
          roundtrip' =
              [scenario |-> k,
               grid |-> dcf_sensitivity_analysis(
                            output.inputs[KeyBaseFcf], output.inputs[KeyShares],
                            output.inputs[KeyNetDebt], scenario_inputs[k].growth,
                            <<scenario_inputs[k].wacc>>, <<shared_tg>>,
                            DefaultYears)]
    /\ pc' = "compared"
    /\ UNCHANGED <<call, ret, inputs, scenario_inputs, shared_tg, alt, idx,
                   results, fcf_tables, results2, fcf_tables2, output>>
    /\ UnchangedGrid

Next == LoopIter \/ Return \/ RoundTrip

Spec == Init /\ [][Next]_vars

---------------------------------------------------------------------------
(* SpecTwin: dcf_model run on a mapping and, beside it, on a second mapping *)
(* that differs from the first in the growth rate of one scenario.          *)

AltGrowth == Vals({<<-9, 10>>, <<1, 2>>}, {PyFloat})

\* scenario_inputs with the growth of scenario alt.s replaced by alt.growth.
AltInputs == [i \in 1..Len(scenario_inputs) |->
                 IF i = alt.s THEN [scenario_inputs[i] EXCEPT !.growth = alt.growth]
                 ELSE scenario_inputs[i]]

InitTwin ==
    /\ Loaded
    /\ inputs[KeyBaseFcf] = N(100, 1) /\ inputs[KeyShares] = N(3, 1)
    /\ \E k \in 1..Len(scenario_inputs), g \in AltGrowth : alt = [s |-> k, growth |-> g]

\* Lines 52-60 in both runs: the next scenario of each mapping.
TwinIter ==
    /\ pc = "loop"
    /\ idx < Len(scenario_inputs)
    /\ LET one == Iterate(scenario_inputs, results, fcf_tables)
           two == Iterate(AltInputs, results2, fcf_tables2)
       IN  IF one.exc \/ two.exc
           THEN /\ pc' = "raised"
                /\ UNCHANGED <<idx, results, fcf_tables, results2, fcf_tables2>>
           ELSE /\ pc' = "loop"
                /\ idx' = idx + 1
                /\ results' = one.results /\ fcf_tables' = one.fcf_tables
                /\ results2' = two.results /\ fcf_tables2' = two.fcf_tables
    /\ UNCHANGED <<call, ret, inputs, scenario_inputs, shared_tg, alt, output,
                   roundtrip>>
    /\ UnchangedGrid

\* Lines 62-66 in both runs.
TwinReturn ==
    /\ pc = "loop"
    /\ idx = Len(scenario_inputs)
    /\ output' = [summary |-> Summary(results), dcf_table |-> DcfTable(fcf_tables),
                  inputs |-> inputs,
                  summary2 |-> Summary(results2),
                  dcf_table2 |-> DcfTable(fcf_tables2)]
    /\ pc' = "done"
    /\ UNCHANGED <<call, ret, inputs, scenario_inputs, shared_tg, alt, idx,
                   results, fcf_tables, results2, fcf_tables2, roundtrip>>
    /\ UnchangedGrid

NextTwin == TwinIter \/ TwinReturn

SpecTwin == InitTwin /\ [][NextTwin]_vars

---------------------------------------------------------------------------
(* Claims about dcf_model, checked under Spec and SpecTwin.                 *)

Returned == pc \in {"done", "compared"}

\* The scenario at position i divides by zero: its discount rate equals the
\* shared terminal growth rate.
Fails(i) == Eq(scenario_inputs[i].wacc, shared_tg)

\* A per-scenario error marker in place of a valuation.
IsErrorMarker(v) == IsExc(v[KeyPrice])

IsValuation(v) ==
    IsFinite(v[KeyEV]) /\ IsFinite(v[KeyEquity]) /\ IsFinite(v[KeyPrice])

\* C1: when a stage fails for one scenario of the mapping and not for
\* another, dcf_model still returns, with the valuation of every scenario
\* that does not fail and an explicit error marker for the one that does.
C1_PartialResultsWithMarkers ==
    ((\E i \in 1..Len(scenario_inputs) : Fails(i))
        /\ (\E j \in 1..Len(scenario_inputs) : ~Fails(j))) =>
        /\ pc # "raised"
        /\ Returned =>
              /\ Len(output.summary) = Len(scenario_inputs)
              /\ \A i \in 1..Len(output.summary) :
                    IF Fails(i) THEN IsErrorMarker(output.summary[i].row)
                    ELSE IsValuation(output.summary[i].row)

\* C4: for a scenario whose discount rate differs from the terminal growth
\* rate, the single cell of the grid built from that scenario's growth rate,
\* [its discount rate] and [the terminal growth rate] equals the share price
\* dcf_model reports for the scenario.
C4_GridReproducesScenarioPrice ==
    pc = "compared" =>
        LET k == roundtrip.scenario
        IN  ~Fails(k) =>
               /\ ~roundtrip.grid.exc
               /\ Eq(roundtrip.grid.table.cells[1][1],
                     output.summary[k].row[KeyPrice])

AllEvaluate == \A i \in 1..Len(scenario_inputs) : ~Fails(i)

\* C8: when all scenarios evaluate, the output holds exactly one valuation
\* and one discounted series per scenario of the mapping, the rows of the
\* summary and the columns of the per-period table in the mapping's order.
C8_OnePerScenarioInOrder ==
    (Returned /\ AllEvaluate) =>
        /\ Len(output.summary) = Len(scenario_inputs)
        /\ Len(output.dcf_table) = Len(scenario_inputs)
        /\ \A i \in 1..Len(scenario_inputs) :
              /\ output.summary[i].Scenario = scenario_inputs[i].name
              /\ output.dcf_table[i].column = scenario_inputs[i].name
              /\ IsValuation(output.summary[i].row)
              /\ Len(output.dcf_table[i].rows) = DefaultYears + 1

\* C8 witness: dcf_model returned for a mapping of at least two scenarios
\* with different rates, all of which evaluate.
C8_Witness ==
    /\ pc = "done" /\ AllEvaluate
    /\ Len(scenario_inputs) >= 2
    /\ output.summary[1].row # output.summary[2].row
    /\ scenario_inputs[1].name = "Bull" /\ scenario_inputs[2].name = "Bear"

\* C7: for two mappings that differ only in the growth rate of scenario S,
\* the valuation and the discounted series of every other scenario are the
\* same in both runs, during the loop and in what is returned.
C7_OtherScenariosUnchanged ==
    /\ Len(results) = Len(results2) /\ Len(fcf_tables) = Len(fcf_tables2)
    /\ \A i \in 1..Len(results) :
          i # alt.s => /\ results[i] = results2[i]
                       /\ fcf_tables[i] = fcf_tables2[i]
    /\ pc = "done" =>
          \A i \in 1..Len(scenario_inputs) :
              i # alt.s => /\ output.summary[i] = output.summary2[i]
                           /\ output.dcf_table[i] = output.dcf_table2[i]

\* C7 witness: both runs returned, the changed scenario comes first and its
\* own valuation differs between the runs, and another scenario follows it.
C7_Witness ==
    /\ pc = "done"
    /\ alt.s = 1 /\ Len(scenario_inputs) >= 2
    /\ alt.growth # scenario_inputs[1].growth
    /\ output.summary[1].row # output.summary2[1].row
    /\ IsValuation(output.summary[2].row)

---------------------------------------------------------------------------
(* SpecGrid: dcf_sensitivity_analysis, one pair (g, r) at a time.           *)

\* Longest tg_range and wacc_range.
MaxRange == 2

\* Terminal growth rates: 24.996 %, 25 %, 25.004 % (one label, "25.0%")
\* and 2.5 %.
GridTgValues == {<<6249, 25000>>, <<1, 4>>, <<6251, 25000>>, <<1, 40>>}

\* Discount rates: 25 % and 100 %.
GridWaccValues == {<<1, 4>>, <<1, 1>>}

GridGrowthValues == {<<0, 1>>, <<1, 2>>}

NonEmpty(S) == {q \in S : Len(q) >= 1}

\* The call, after lines 71-73: the arguments are Python floats (lists) or
\* numpy scalars (arrays, as the defaults of lines 69-70 are).
InitGrid ==
    /\ pc = "grid"
    /\ call = NoCall /\ ret = NoRet
    /\ inputs = <<>> /\ scenario_inputs = <<>> /\ shared_tg = Zero
    /\ alt = <<>> /\ idx = 0
    /\ results = <<>> /\ fcf_tables = <<>>
    /\ results2 = <<>> /\ fcf_tables2 = <<>>
    /\ output = <<>> /\ roundtrip = <<>>
    /\ \E t \in Types, g \in Vals(GridGrowthValues, {PyFloat}) :
       \E wr \in NonEmpty(SeqsUpTo(Vals(GridWaccValues, {t}), MaxRange)),
          tr \in NonEmpty(SeqsUpTo(Vals(GridTgValues, {t}), MaxRange)) :
          /\ grid = [base_fcf |-> Norm(1, 1, t), shares |-> Norm(3, 1, t),
                     net_debt |-> Norm(50, 1, t), growth_rate |-> g,
                     wacc_range |-> wr, tg_range |-> tr, years |-> DefaultYears]
          /\ table = EmptyTable(tr, wr)
    /\ gi = 1 /\ ri = 1

\* Lines 76-83 for the pair at positions (gi, ri), then the next pair.
GridCell ==
    /\ pc = "grid"
    /\ gi <= Len(grid.tg_range)
    /\ LET g == grid.tg_range[gi]
           r == grid.wacc_range[ri]
           price == CellPrice(FcfList(grid.base_fcf, grid.growth_rate, grid.years),
                              grid.shares, grid.net_debt, grid.growth_rate,
                              grid.years, g, r)
       IN  IF IsExc(price)
           THEN pc' = "raised" /\ UNCHANGED <<table, gi, ri>>
           ELSE /\ table' = LocSet(table, Label(g), Label(r), price)
                /\ IF ri < Len(grid.wacc_range)
                   THEN ri' = ri + 1 /\ gi' = gi
                   ELSE ri' = 1 /\ gi' = gi + 1
                /\ pc' = "grid"
    /\ UNCHANGED <<call, ret, grid>>
    /\ UnchangedModel

\* Line 84.
GridReturn ==
    /\ pc = "grid"
    /\ gi > Len(grid.tg_range)
    /\ pc' = "returned"
    /\ UNCHANGED <<call, ret, grid, table, gi, ri>>
    /\ UnchangedModel

NextGrid == GridCell \/ GridReturn

SpecGrid == InitGrid /\ [][NextGrid]_vars

---------------------------------------------------------------------------
(* Claims about dcf_sensitivity_analysis, checked under SpecGrid.           *)

\* The price lines 76-83 compute for the pair at positions (i, j).
PairPrice(i, j) ==
    CellPrice(FcfList(grid.base_fcf, grid.growth_rate, grid.years),
              grid.shares, grid.net_debt, grid.growth_rate, grid.years,
              grid.tg_range[i], grid.wacc_range[j])

EqualRates(i, j) == Eq(grid.wacc_range[j], grid.tg_range[i])

\* C2: the grid computation does not abort; a cell whose discount rate
\* equals its terminal growth rate holds an error marker (not a nan, an
\* infinity or an unfilled cell), and every other cell holds a finite price.
C2_EqualRatesCellHoldsMarker ==
    /\ pc # "raised"
    /\ pc = "returned" =>
          \A i \in 1..Len(grid.tg_range), j \in 1..Len(grid.wacc_range) :
              IF EqualRates(i, j) THEN IsExc(table.cells[i][j])
              ELSE IsFinite(table.cells[i][j])

\* C10: with no pair r == g, the cell at row position i and column position
\* j of the returned table holds the price of the i-th terminal growth value
\* and the j-th discount rate.
C10_CellHoldsPriceOfItsPair ==
    (/\ pc = "returned"
     /\ \A i \in 1..Len(grid.tg_range), j \in 1..Len(grid.wacc_range) :
           ~EqualRates(i, j)) =>
        \A i \in 1..Len(grid.tg_range), j \in 1..Len(grid.wacc_range) :
            Eq(table.cells[i][j], PairPrice(i, j))

===========================================================================
